---- MODULE Spec2Model ----
(***************************************************************************)
(* The transformation engine of 99csw: SynthesizeHandler (handlers.py) and *)
(* PageList (utils.py).  Text is a sequence of one-character strings; a    *)
(* path is text; the file system maps absolute paths to file content.      *)
(***************************************************************************)
EXTENDS Integers, Sequences, FiniteSets, TLC

VARIABLES
    files,        \* the file system: absolute path -> content (text)
    dictionary,   \* SynthesizeHandler.dictionary: sequence of <<key, value>>
    folder_path,  \* SynthesizeHandler.folder_path, NoFolder before the first call
    file_names,   \* PageList.file_names
    last          \* the last operation: its arguments, locals and result

vars == <<files, dictionary, folder_path, file_names, last>>

(***************************************************************************)
(* str: the operations of Python's str the code uses                       *)
(***************************************************************************)

Min(a, b) == IF a < b THEN a ELSE b

\* s[i-1:] in Python terms: the text from position i (1-based) to the end
From(s, i) == SubSeq(s, i, Len(s))

\* t occurs in s at position i
OccursAt(s, t, i) ==
    /\ i >= 1
    /\ i + Len(t) - 1 <= Len(s)
    /\ t # <<>> => s[i] = t[1]
    /\ SubSeq(s, i, i + Len(t) - 1) = t

\* s.find(t, from): the first position >= from where t occurs, 0 when none
Find(s, t, from) ==
    LET hits == {i \in from..(Len(s) - Len(t) + 1) : OccursAt(s, t, i)}
    IN  IF hits = {} THEN 0 ELSE CHOOSE i \in hits : \A j \in hits : i <= j

\* s.rfind(t): the last position where t occurs, 0 when none
RFind(s, t) ==
    LET hits == {i \in 1..(Len(s) - Len(t) + 1) : OccursAt(s, t, i)}
    IN  IF hits = {} THEN 0 ELSE CHOOSE i \in hits : \A j \in hits : i >= j

\* t in s
Contains(s, t) == Find(s, t, 1) # 0

\* s.endswith(t)
EndsWith(s, t) == Len(t) <= Len(s) /\ SubSeq(s, Len(s) - Len(t) + 1, Len(s)) = t

\* s.startswith(t)
StartsWith(s, t) == OccursAt(s, t, 1)

Whitespace == {" ", "\n", "\t"}

\* s.strip()
Strip(s) ==
    LET keep == {i \in 1..Len(s) : s[i] \notin Whitespace}
    IN  IF keep = {} THEN <<>>
        ELSE SubSeq(s, CHOOSE i \in keep : \A j \in keep : i <= j,
                       CHOOSE i \in keep : \A j \in keep : i >= j)

UpperCase == <<"A","B","C","D","E","F","G","H","I","J","K","L","M",
               "N","O","P","Q","R","S","T","U","V","W","X","Y","Z">>

LowerCase == <<"a","b","c","d","e","f","g","h","i","j","k","l","m",
               "n","o","p","q","r","s","t","u","v","w","x","y","z">>

Letters == {UpperCase[i] : i \in 1..Len(UpperCase)} \cup {LowerCase[i] : i \in 1..Len(LowerCase)}

Digits == {"0", "1", "2", "3", "4", "5", "6", "7", "8", "9"}

LowerOf ==
    [c \in {UpperCase[i] : i \in 1..Len(UpperCase)} |->
        LowerCase[CHOOSE i \in 1..Len(UpperCase) : UpperCase[i] = c]]

LowerChar(c) == IF c \in DOMAIN LowerOf THEN LowerOf[c] ELSE c

\* s.lower()
Lower(s) == [i \in 1..Len(s) |-> LowerChar(s[i])]

\* s.replace(old, new): every non-overlapping occurrence, left to right; an
\* empty old matches before every character and at the end
RECURSIVE Replace(_, _, _)
Replace(s, old, new) ==
    IF old = <<>>
    THEN [k \in 1..(Len(new) * (Len(s) + 1) + Len(s)) |->
             IF (k - 1) % (Len(new) + 1) < Len(new)
             THEN new[((k - 1) % (Len(new) + 1)) + 1]
             ELSE s[((k - 1) \div (Len(new) + 1)) + 1]]
    ELSE LET i == Find(s, old, 1)
         IN  IF i = 0 THEN s
             ELSE SubSeq(s, 1, i - 1) \o new
                  \o Replace(From(s, i + Len(old)), old, new)

\* the lines of a text file, each with its terminator (iteration, readlines)
RECURSIVE ReadLines(_)
ReadLines(s) ==
    IF s = <<>> THEN <<>>
    ELSE LET i == Find(s, <<"\n">>, 1)
         IN  IF i = 0 THEN <<s>>
             ELSE <<SubSeq(s, 1, i)>> \o ReadLines(From(s, i + 1))

\* "".join(lines)
RECURSIVE Join(_)
Join(lines) == IF lines = <<>> THEN <<>> ELSE Head(lines) \o Join(Tail(lines))

(***************************************************************************)
(* os.path (posixpath) and the file system                                 *)
(***************************************************************************)

\* the process's working directory, against which relative paths resolve
Cwd == <<"/", "w">>

RECURSIVE RStripSlash(_)
RStripSlash(p) ==
    IF p # <<>> /\ p[Len(p)] = "/" THEN RStripSlash(SubSeq(p, 1, Len(p) - 1)) ELSE p

\* os.path.dirname
dirname(p) ==
    LET head == SubSeq(p, 1, RFind(p, <<"/">>))
    IN  IF head # <<>> /\ (\E k \in 1..Len(head) : head[k] # "/")
        THEN RStripSlash(head) ELSE head

\* os.path.basename
basename(p) == From(p, RFind(p, <<"/">>) + 1)

\* os.path.splitext(p)[0]: a dot that only leads the file name is no extension
splitext0(p) ==
    LET sepIndex == RFind(p, <<"/">>)
        dotIndex == RFind(p, <<".">>)
    IN  IF dotIndex > sepIndex
           /\ \E k \in (sepIndex + 1)..(dotIndex - 1) : p[k] # "."
        THEN SubSeq(p, 1, dotIndex - 1) ELSE p

\* os.path.join(a, b)
join(a, b) ==
    IF StartsWith(b, <<"/">>) THEN b
    ELSE IF a = <<>> \/ EndsWith(a, <<"/">>) THEN a \o b
    ELSE a \o <<"/">> \o b

\* p.split('/')
RECURSIVE SplitSep(_)
SplitSep(p) ==
    LET i == Find(p, <<"/">>, 1)
    IN  IF i = 0 THEN <<p>>
        ELSE <<SubSeq(p, 1, i - 1)>> \o SplitSep(From(p, i + 1))

\* the component loop of os.path.normpath
RECURSIVE NormComps(_, _, _)
NormComps(comps, new_comps, initial_slashes) ==
    IF comps = <<>> THEN new_comps
    ELSE LET comp == Head(comps)
             next ==
                 IF comp = <<>> \/ comp = <<".">> THEN new_comps
                 ELSE IF \/ comp # <<".", ".">>
                         \/ (initial_slashes = 0 /\ new_comps = <<>>)
                         \/ (new_comps # <<>> /\ new_comps[Len(new_comps)] = <<".", ".">>)
                      THEN Append(new_comps, comp)
                 ELSE IF new_comps # <<>> THEN SubSeq(new_comps, 1, Len(new_comps) - 1)
                 ELSE new_comps
         IN  NormComps(Tail(comps), next, initial_slashes)

\* '/'.join(comps)
RECURSIVE JoinSep(_)
JoinSep(comps) ==
    IF comps = <<>> THEN <<>>
    ELSE IF Len(comps) = 1 THEN comps[1]
    ELSE comps[1] \o <<"/">> \o JoinSep(Tail(comps))

\* os.path.normpath
normpath(p) ==
    IF p = <<>> THEN <<".">>
    ELSE LET initial_slashes ==
                 IF ~StartsWith(p, <<"/">>) THEN 0
                 ELSE IF StartsWith(p, <<"/", "/">>) /\ ~StartsWith(p, <<"/", "/", "/">>)
                      THEN 2 ELSE 1
             body == JoinSep(NormComps(SplitSep(p), <<>>, initial_slashes))
             path == [i \in 1..initial_slashes |-> "/"] \o body
         IN  IF path = <<>> THEN <<".">> ELSE path

\* os.path.abspath
abspath(p) == normpath(IF StartsWith(p, <<"/">>) THEN p ELSE join(Cwd, p))

\* os.path.isfile on the file system fs: the path resolves to a file
isfile(fs, p) == abspath(p) \in DOMAIN fs

\* os.path.isdir on fs: the directories are the ones that hold a file
isdir(fs, p) ==
    \E f \in DOMAIN fs : StartsWith(f, RStripSlash(abspath(p)) \o <<"/">>)

\* os.path.exists
exists(fs, p) == isfile(fs, p) \/ isdir(fs, p)

\* the content open(p).read() returns
ReadFile(fs, p) == fs[abspath(p)]

\* fs after a file is written at p
WriteFile(fs, p, content) == (abspath(p) :> content) @@ fs

(***************************************************************************)
(* The string literals of handlers.py                                      *)
(***************************************************************************)

\* "dictionary.csv"
DictionaryCsv ==
    <<"d","i","c","t","i","o","n","a","r","y",".","c","s","v">>

\* "index.html"
IndexHtml ==
    <<"i","n","d","e","x",".","h","t","m","l">>

\* "index_2.html"
Index2Html ==
    <<"i","n","d","e","x","_","2",".","h","t","m","l">>

\* '.html'
DotHtml ==
    <<".","h","t","m","l">>

\* '.txt'
DotTxt ==
    <<".","t","x","t">>

\* "_2", the derived-output marker
Marker2 ==
    <<"_","2">>

\* '_2.html'
Suffix2Html ==
    <<"_","2",".","h","t","m","l">>

\* the header line "scan the code to read", one token per CJK character
Sentinel ==
    <<"U+624B","U+6A5F","U+6383","U+78BC","U+95B1","U+8B80">>

\* the chapter character, as text of one token
ChapterMarker ==
    <<"U+7AE0">>

\* '<h2>'
H2Open ==
    <<"<","h","2",">">>

\* '</h2>\n'
H2Close ==
    <<"<","/","h","2",">","\n">>

\* '<div style="margin-bottom:20px;">': the attribute is a single token, as
\* no key or pattern of the model reads inside it
DivOpen ==
    <<"<","d","i","v"," ","style=\"margin-bottom:20px;\"",">">>

\* '</div>\n'
DivClose ==
    <<"<","/","d","i","v",">","\n">>

\* the literal head of main_pattern
MainOpenPattern ==
    <<"<","m","a","i","n">>

\* the literal tail of main_pattern
MainClosePattern ==
    <<"<","/","m","a","i","n",">">>

\* main_replacement up to the fragment; the attribute list of the article
\* tag is a single token, as no key or pattern of the model reads inside it
ArticleOpen ==
    <<"<","a","r","t","i","c","l","e"," ",
      "id=\"content\" style=\"line-height: 2.4; outline: 0px; font-size: x-large; padding-left: 10%; padding-right: 10%;\" class=\"scrollbox\" tabindex=\"1\"",
      ">","<","m","a","i","n",">","\n">>

\* main_replacement after the fragment
ArticleClose ==
    <<"<","/","m","a","i","n",">","<","/","a","r","t","i","c","l","e",">">>

\* the text appended before the fragment when no region matches
AppendOpen ==
    <<"\n","<","m","a","i","n",">","\n">>

\* the text appended after the fragment when no region matches
AppendClose ==
    <<"<","/","m","a","i","n",">">>

(***************************************************************************)
(* SynthesizeHandler.load_dictionary and apply_dictionary_replacements     *)
(***************************************************************************)

\* hasattr(self, 'folder_path') is false
NoFolder == <<>>

\* a read that does not fail
NoFail == -1

\* self.dictionary[key] = value: an existing key keeps its place
DictSet(d, key, value) ==
    IF \E i \in 1..Len(d) : d[i][1] = key
    THEN [i \in 1..Len(d) |-> IF d[i][1] = key THEN <<key, value>> ELSE d[i]]
    ELSE Append(d, <<key, value>>)

\* the body of the loop over the lines of dictionary.csv
ParseLine(d, raw) ==
    LET line == Strip(raw)
    IN  IF line # <<>> /\ Contains(line, <<",">>)
        THEN LET i     == Find(line, <<",">>, 1)
                 key   == Strip(SubSeq(line, 1, i - 1))
                 v     == Strip(From(line, i + 1))
                 value == IF v = IndexHtml THEN Index2Html ELSE v
             IN  DictSet(d, key, value)
        ELSE d

RECURSIVE ParseLines(_, _)
ParseLines(d, lines) ==
    IF lines = <<>> THEN d ELSE ParseLines(ParseLine(d, Head(lines)), Tail(lines))

\* one step of the stable sort: e goes after every entry whose key is at
\* least as long as its own
InsertByKeyLen(out, e) ==
    LET shorter == {i \in 1..Len(out) : Len(out[i][1]) < Len(e[1])}
        at      == IF shorter = {} THEN Len(out) + 1
                   ELSE CHOOSE i \in shorter : \A j \in shorter : i <= j
    IN  SubSeq(out, 1, at - 1) \o <<e>> \o From(out, at)

\* dict(sorted(items, key=lambda item: len(item[0]), reverse=True))
RECURSIVE SortByKeyLen(_, _)
SortByKeyLen(d, out) ==
    IF d = <<>> THEN out ELSE SortByKeyLen(Tail(d), InsertByKeyLen(out, Head(d)))

\* load_dictionary: self.dictionary afterwards.  failAt = k >= 0: the read
\* raises after k lines have been consumed, and the handler only logs it
LoadDictionary(fs, folder, failAt) ==
    LET dict_path == join(folder, DictionaryCsv)
    IN  IF isfile(fs, dict_path)
        THEN LET lines == ReadLines(ReadFile(fs, dict_path))
             IN  IF failAt = NoFail
                 THEN SortByKeyLen(ParseLines(<<>>, lines), <<>>)
                 ELSE ParseLines(<<>>, SubSeq(lines, 1, Min(failAt, Len(lines))))
        ELSE <<>>

\* apply_dictionary_replacements
RECURSIVE ApplyDictionaryReplacements(_, _)
ApplyDictionaryReplacements(d, content) ==
    IF d = <<>> THEN content
    ELSE ApplyDictionaryReplacements(Tail(d), Replace(content, d[1][1], d[1][2]))

(***************************************************************************)
(* SynthesizeHandler.process_other_html: the fragment and the merge        *)
(***************************************************************************)

\* range(8): the lines of the companion text scanned for the skip boundary
HeaderLines == 8

\* the loop over the first 8 lines: skip_line_index after lines i.. (0-based)
RECURSIVE SkipLineIndex(_, _, _)
SkipLineIndex(txt_lines, i, skip_line_index) ==
    IF i >= HeaderLines THEN skip_line_index
    ELSE LET current_line == Strip(txt_lines[i + 1])
             s1 == IF current_line = Sentinel THEN i ELSE skip_line_index
             s2 == IF Contains(current_line, ChapterMarker) THEN i ELSE s1
         IN  SkipLineIndex(txt_lines, i + 1, s2)

\* a slip: the line at the skip boundary itself is kept
RECURSIVE WrappedContentKeepsBoundary(_, _, _, _)
WrappedContentKeepsBoundary(txt_lines, skip_line_index, i, wrapped_content) ==
    IF i >= Len(txt_lines) THEN wrapped_content
    ELSE LET line == Strip(txt_lines[i + 1])
             next ==
                 IF skip_line_index > i THEN wrapped_content
                 ELSE IF line = <<>> THEN wrapped_content
                 ELSE IF wrapped_content = <<>>
                      THEN wrapped_content \o H2Open \o line \o H2Close
                 ELSE wrapped_content \o DivOpen \o line \o DivClose
         IN  WrappedContentKeepsBoundary(txt_lines, skip_line_index, i + 1, next)

\* the loop that wraps the lines: wrapped_content after lines i.. (0-based)
RECURSIVE WrappedContent(_, _, _, _)
WrappedContent(txt_lines, skip_line_index, i, wrapped_content) ==
    IF i >= Len(txt_lines) THEN wrapped_content
    ELSE LET line == Strip(txt_lines[i + 1])
             next ==
                 IF skip_line_index >= i THEN wrapped_content
                 ELSE IF line = <<>> THEN wrapped_content
                 ELSE IF wrapped_content = <<>>
                      THEN wrapped_content \o H2Open \o line \o H2Close
                 ELSE wrapped_content \o DivOpen \o line \o DivClose
         IN  WrappedContent(txt_lines, skip_line_index, i + 1, next)

\* the escapes re.sub processes in its replacement: \n, \t and \\ stand for
\* one character, a backslash before another letter or digit or at the end is
\* an error, before any other character it stays.  The result is <<ok, text>>.
\* Only the fragment can hold a backslash, the rest of main_replacement has
\* none.  The escapes \a \b \f \r \v, \0 and \g<0> are not told apart from
\* the letters and digits that are errors: no text of the model holds them.
RECURSIVE ExpandTemplate(_)
ExpandTemplate(t) ==
    LET i == Find(t, <<"\\">>, 1)
    IN  IF i = 0 THEN <<TRUE, t>>
        ELSE IF i = Len(t) THEN <<FALSE, <<>>>>
        ELSE LET c    == t[i + 1]
                 rest == ExpandTemplate(From(t, i + 2))
                 one  == IF c = "n" THEN <<"\n">>
                         ELSE IF c = "t" THEN <<"\t">>
                         ELSE IF c = "\\" THEN <<"\\">>
                         ELSE <<"\\", c>>
             IN  IF c \notin {"n", "t"} /\ c \in Letters \cup Digits
                 THEN <<FALSE, <<>>>>
                 ELSE <<rest[1], SubSeq(t, 1, i - 1) \o one \o rest[2]>>

\* the leftmost match of r'<main[^>]*>.*?</main>' (DOTALL, IGNORECASE) in s
\* at or after position from: <<start, end>>, or <<0, 0>> when there is none
RECURSIVE MainMatch(_, _)
MainMatch(s, from) ==
    LET low   == Lower(s)
        start == Find(low, MainOpenPattern, from)
        gt    == IF start = 0 THEN 0 ELSE Find(s, <<">">>, start + Len(MainOpenPattern))
        close == IF gt = 0 THEN 0 ELSE Find(low, MainClosePattern, gt + 1)
    IN  IF start = 0 THEN <<0, 0>>
        ELSE IF close = 0 THEN MainMatch(s, start + 1)
        ELSE <<start, close + Len(MainClosePattern) - 1>>

\* re.search(main_pattern, html_content, ...) finds a match
MainSearch(html_content) == MainMatch(html_content, 1)[1] # 0

\* re.sub(main_pattern, repl, html_content, ...) with repl already expanded:
\* every match is replaced, since no count is given
RECURSIVE MainSub(_, _)
MainSub(html_content, repl) ==
    LET m == MainMatch(html_content, 1)
    IN  IF m[1] = 0 THEN html_content
        ELSE SubSeq(html_content, 1, m[1] - 1) \o repl
             \o MainSub(From(html_content, m[2] + 1), repl)

(***************************************************************************)
(* The two strategies.  fail names the step at which an exception is       *)
(* raised: "none", "read_txt" (the companion text), "read" (the HTML       *)
(* file), "open" (the output cannot be opened), "truncate" (the output was *)
(* opened, nothing reached it), "partial" (part of the content reached it) *)
(***************************************************************************)

Failures == {"none", "read_txt", "read", "open", "truncate", "partial"}

\* what a strategy hands back: the return value, the file system it leaves,
\* the output path, the content it computed and the locals of the merge
Outcome(ret, fs, output_path, content, wrapped_content, skip_line_index) ==
    [ret |-> ret, fs |-> fs, out |-> output_path, content |-> content,
     wrapped_content |-> wrapped_content, skip_line_index |-> skip_line_index]

\* with open(output_path, 'w') as f: f.write(content), and the return
WriteOutput(fs, output_path, content, fail, wrapped_content, skip_line_index) ==
    IF fail = "open"
    THEN Outcome(FALSE, fs, output_path, content, wrapped_content, skip_line_index)
    ELSE IF fail = "truncate"
    THEN Outcome(FALSE, WriteFile(fs, output_path, <<>>), output_path, content,
                 wrapped_content, skip_line_index)
    ELSE IF fail = "partial"
    THEN Outcome(FALSE,
                 WriteFile(fs, output_path, SubSeq(content, 1, Len(content) \div 2)),
                 output_path, content, wrapped_content, skip_line_index)
    ELSE Outcome(TRUE, WriteFile(fs, output_path, content), output_path, content,
                 wrapped_content, skip_line_index)

\* output_path of process_index_html
IndexOutputPath(file_path) == join(dirname(file_path), Index2Html)

\* process_index_html
ProcessIndexHtml(fs, d, file_path, fail) ==
    LET output_path == IndexOutputPath(file_path)
    IN  IF fail = "read" \/ ~isfile(fs, file_path)
        THEN Outcome(FALSE, fs, output_path, <<>>, <<>>, 0)
        ELSE LET lines == ReadLines(ReadFile(fs, file_path))
                 processed_lines ==
                     [i \in 1..Len(lines) |-> ApplyDictionaryReplacements(d, lines[i])]
             IN  WriteOutput(fs, output_path, Join(processed_lines), fail, <<>>, 0)

\* a slip: the output takes the input's own name
OtherOutputPathSameName(file_path) == splitext0(file_path) \o DotHtml

\* output_path of process_other_html
OtherOutputPath(file_path) == splitext0(file_path) \o Suffix2Html

\* the merge of the fragment into html_content: <<ok, text>>
Merge(html_content, wrapped_content) ==
    IF MainSearch(html_content)
    THEN LET repl == ExpandTemplate(wrapped_content)
         IN  IF repl[1]
             THEN <<TRUE, MainSub(html_content, ArticleOpen \o repl[2] \o ArticleClose)>>
             ELSE <<FALSE, <<>>>>
    ELSE <<TRUE, html_content \o AppendOpen \o wrapped_content \o AppendClose>>

\* a slip: the header is read with f.readline(), which hands back an empty
\* line at the end of the text where next(f) raises
ProcessOtherHtmlReadline(fs, d, file_path, fail) ==
    LET base_name     == splitext0(file_path)
        txt_file_path == base_name \o DotTxt
        output_path   == OtherOutputPath(file_path)
        failed        == Outcome(FALSE, fs, output_path, <<>>, <<>>, 0)
    IN  IF ~exists(fs, txt_file_path) THEN failed
        ELSE IF fail = "read_txt" \/ ~isfile(fs, txt_file_path) THEN failed
        ELSE LET read_lines == ReadLines(ReadFile(fs, txt_file_path))
                 txt_lines ==
                     IF Len(read_lines) >= HeaderLines THEN read_lines
                     ELSE read_lines \o [i \in 1..(HeaderLines - Len(read_lines)) |-> <<>>]
                 skip_line_index == SkipLineIndex(txt_lines, 0, 0)
                 wrapped_content == WrappedContent(txt_lines, skip_line_index, 0, <<>>)
                 merged == Merge(ReadFile(fs, file_path), wrapped_content)
             IN  IF fail = "read" \/ ~isfile(fs, file_path) \/ ~merged[1]
                 THEN Outcome(FALSE, fs, output_path, <<>>,
                              wrapped_content, skip_line_index)
                 ELSE WriteOutput(fs, output_path,
                                  ApplyDictionaryReplacements(d, merged[2]),
                                  fail, wrapped_content, skip_line_index)

\* process_other_html
ProcessOtherHtml(fs, d, file_path, fail) ==
    LET base_name     == splitext0(file_path)
        txt_file_path == base_name \o DotTxt
        output_path   == OtherOutputPath(file_path)
        failed        == Outcome(FALSE, fs, output_path, <<>>, <<>>, 0)
    IN  IF ~exists(fs, txt_file_path) THEN failed
        ELSE IF fail = "read_txt" \/ ~isfile(fs, txt_file_path) THEN failed
        ELSE LET txt_lines == ReadLines(ReadFile(fs, txt_file_path))
             IN  IF Len(txt_lines) < HeaderLines THEN failed
                 ELSE LET skip_line_index == SkipLineIndex(txt_lines, 0, 0)
                          wrapped_content ==
                              WrappedContent(txt_lines, skip_line_index, 0, <<>>)
                          merged == Merge(ReadFile(fs, file_path), wrapped_content)
                      IN  IF fail = "read" \/ ~isfile(fs, file_path) \/ ~merged[1]
                          THEN Outcome(FALSE, fs, output_path, <<>>,
                                       wrapped_content, skip_line_index)
                          ELSE WriteOutput(fs, output_path,
                                           ApplyDictionaryReplacements(d, merged[2]),
                                           fail, wrapped_content, skip_line_index)

(***************************************************************************)
(* PageList.append                                                         *)
(***************************************************************************)

\* the elements of a list
Range(seq) == {seq[i] : i \in 1..Len(seq)}

\* the orders in which a directory scan can list the set S
Orders(S) ==
    {o \in [1..Cardinality(S) -> S] : \A i, j \in 1..Cardinality(S) : i # j => o[i] # o[j]}

\* glob.glob(os.path.join(path, "*.html")): the first-level names that end in
\* .html and do not start with a dot, each joined to path as it was spelled
Glob(fs, path) ==
    {join(path, basename(f)) : f \in
        {g \in DOMAIN fs : /\ dirname(g) = RStripSlash(abspath(path))
                           /\ EndsWith(basename(g), DotHtml)
                           /\ ~StartsWith(basename(g), <<".">>)}}

\* the loop over html_files in the folder branch
RECURSIVE AppendAll(_, _)
AppendAll(names, html_files) ==
    IF html_files = <<>> THEN names
    ELSE LET html_file == Head(html_files)
         IN  AppendAll(IF html_file \notin Range(names) /\ ~Contains(html_file, Marker2)
                       THEN Append(names, html_file) ELSE names,
                       Tail(html_files))

\* the file branch accepts the path
AcceptsFile(path) == EndsWith(Lower(path), DotHtml) /\ ~Contains(path, Marker2)

\* the file branch: file_names afterwards
AppendFile(names, path) == IF path \in Range(names) THEN names ELSE Append(names, path)

(***************************************************************************)
(* The state machine: a batch driver that collects paths into the PageList *)
(* and calls the handler on collected files                                *)
(***************************************************************************)

\* the most files the PageList is let grow to
MaxFiles == 3

\* the most failures injected into one run
MaxFailures == 1

\* the most lines of a dictionary.csv
MaxCsvLines == 2

\* two folders under the working directory: a holds an index page, a chapter
\* page with its companion text, the chapter's output of an earlier run and a
\* dictionary; b holds an index page and a dictionary
Files0 ==
    (<<"/","w","/","a","/","d","i","c","t","i","o","n","a","r","y",".","c","s","v">> :>
        <<"A",",","2","\n","A","B",",","1","\n">>) @@
    (<<"/","w","/","a","/","i","n","d","e","x",".","h","t","m","l">> :>
        <<"A","B","\n","A","\n">>) @@
    (<<"/","w","/","a","/","c",".","h","t","m","l">> :>
        <<"p","<","m","a","i","n",">","x","<","/","m","a","i","n",">","A">>) @@
    (<<"/","w","/","a","/","c","_","2",".","h","t","m","l">> :>
        <<"o","l","d">>) @@
    (<<"/","w","/","a","/","c",".","t","x","t">> :>
        <<"h","\n","\n","\n","\n","\n","U+7AE0","\n","T","\n","A","B","\n">>) @@
    (<<"/","w","/","b","/","d","i","c","t","i","o","n","a","r","y",".","c","s","v">> :>
        <<"B",",","3","\n">>) @@
    (<<"/","w","/","b","/","i","n","d","e","x",".","h","t","m","l">> :>
        <<"A","B","\n">>)

\* the paths handed to PageList.append
Paths0 ==
    {
     <<"a","/","i","n","d","e","x",".","h","t","m","l">>,
     <<"a","/","c",".","h","t","m","l">>,
     <<"b","/","i","n","d","e","x",".","h","t","m","l">>,
     <<"a">>
    }

NoCall ==
    [op |-> "none", path |-> <<>>, ret |-> FALSE, out |-> <<>>, existed |-> FALSE,
     content |-> <<>>, loaded |-> FALSE, calls |-> 0, loads |-> 0, failures |-> 0,
     loadFail |-> NoFail, fail |-> "none",
     wrapped_content |-> <<>>, skip_line_index |-> 0, raised |-> FALSE,
     processed_count |-> 0, attempted |-> <<>>, succeeded |-> 0, reported |-> 0]

Init ==
    /\ files = Files0
    /\ dictionary = <<>>
    /\ folder_path = NoFolder
    /\ file_names = <<>>
    /\ last = NoCall

\* PageList.append(path), called by the driver before its first handler call;
\* raised: it raised ValueError
AppendPath(path) ==
    /\ last.calls = 0
    /\ IF isfile(files, path)
       THEN IF AcceptsFile(path)
            THEN /\ file_names' = AppendFile(file_names, path)
                 /\ last' = [last EXCEPT !.raised = FALSE]
            ELSE /\ file_names' = file_names
                 /\ last' = [last EXCEPT !.raised = TRUE]
       ELSE IF isdir(files, path)
            THEN /\ \E html_files \in Orders(Glob(files, path)) :
                        file_names' = AppendAll(file_names, html_files)
                 /\ last' = [last EXCEPT !.raised = FALSE]
            ELSE /\ file_names' = file_names
                 /\ last' = [last EXCEPT !.raised = TRUE]
    /\ Len(file_names') <= MaxFiles
    /\ UNCHANGED <<files, dictionary, folder_path>>

\* the number of lines a read of the folder's dictionary.csv can get through
CsvLines(fs, folder) ==
    IF isfile(fs, join(folder, DictionaryCsv))
    THEN Len(ReadLines(ReadFile(fs, join(folder, DictionaryCsv))))
    ELSE 0

\* the folder __call__ takes a file to be in
FolderOf(file_path) == dirname(abspath(file_path))

\* a slip: the table is loaded on the first call only
ReloadOnce(current, folder) == current = NoFolder

\* not hasattr(self, 'folder_path') or self.folder_path != folder_path
Reload(current, folder) == current = NoFolder \/ current # folder

\* SynthesizeHandler.__call__(file_path), with a failure of the dictionary
\* read after loadFail lines and a failure of the strategy at step fail
Call(file_path, loadFail, fail) ==
    LET filename == Lower(basename(file_path))
        folder   == FolderOf(file_path)
        reload   == Reload(folder_path, folder)
        d        == IF reload THEN LoadDictionary(files, folder, loadFail)
                    ELSE dictionary
        r        == IF filename = IndexHtml
                    THEN ProcessIndexHtml(files, d, file_path, fail)
                    ELSE ProcessOtherHtml(files, d, file_path, fail)
        injected == (IF loadFail # NoFail THEN 1 ELSE 0) + (IF fail # "none" THEN 1 ELSE 0)
    IN  /\ last.failures + injected <= MaxFailures
        /\ loadFail # NoFail => reload /\ loadFail <= CsvLines(files, folder)
                                /\ isfile(files, join(folder, DictionaryCsv))
        /\ filename = IndexHtml => fail # "read_txt"
        /\ folder_path' = folder
        /\ dictionary' = d
        /\ files' = r.fs
        /\ last' = [op |-> "call", path |-> file_path, ret |-> r.ret, out |-> r.out,
                    existed |-> isfile(files, r.out), content |-> r.content,
                    loaded |-> reload, calls |-> last.calls + 1,
                    loads |-> last.loads + (IF reload THEN 1 ELSE 0),
                    failures |-> last.failures + injected,
                    loadFail |-> loadFail, fail |-> fail,
                    wrapped_content |-> r.wrapped_content,
                    skip_line_index |-> r.skip_line_index, raised |-> FALSE,
                    \* the driver around the call: processed_count += 1, and
                    \* for the record the files tried and the calls that
                    \* returned True
                    processed_count |-> last.processed_count + 1,
                    attempted |-> Append(last.attempted, file_path),
                    succeeded |-> last.succeeded + (IF r.ret THEN 1 ELSE 0),
                    reported |-> last.reported]
        /\ UNCHANGED file_names

\* how a read of dictionary.csv can go: through, or failing after 0, 1, ...
\* lines
LoadFails == {NoFail} \cup 0..MaxCsvLines

Collect == \E path \in Paths0 : AppendPath(path)

\* the driver's loop: the handler is called on the collected files in order
Transform ==
    /\ last.calls < Len(file_names)
    /\ \E loadFail \in LoadFails, fail \in Failures :
           Call(file_names[last.calls + 1], loadFail, fail)

\* the driver after its loop: "Processing complete! {processed_count} files
\* processed successfully."; an empty PageList returns before the loop
Report ==
    /\ last.op # "report"
    /\ Len(file_names) > 0
    /\ last.calls = Len(file_names)
    /\ last' = [last EXCEPT !.op = "report", !.reported = last.processed_count]
    /\ UNCHANGED <<files, dictionary, folder_path, file_names>>

Next == Collect \/ Transform \/ Report

Spec == Init /\ [][Next]_vars

(***************************************************************************)
(* Properties of the run: output, originals, table cache                   *)
(***************************************************************************)

\* the last operation was a handler call
Called == last.op = "call"

\* the last call took the root strategy
RootCall == Called /\ Lower(basename(last.path)) = IndexHtml

\* the last call took the content-merge strategy
MergeCall == Called /\ Lower(basename(last.path)) # IndexHtml

\* C1: a transform call either returns true with the complete output file
\* written, or returns false and leaves no output file at the output path:
\* neither an empty nor a partly written one, where none was before the call
C1_AllOrNothing ==
    Called =>
        IF last.ret
        THEN isfile(files, last.out) /\ ReadFile(files, last.out) = last.content
        ELSE ~last.existed => ~isfile(files, last.out)

\* the name of a derived output: index_2.html, or <base>_2.html
DerivedName(p) == basename(p) = Index2Html \/ EndsWith(p, Suffix2Html)

\* the collected files, as the file system resolves them
Collected == {abspath(file_names[i]) : i \in 1..Len(file_names)}

\* C2: whatever calls succeeded or failed, every collected HTML file, every
\* companion text and every dictionary.csv has the content it had at the
\* start, and a file that was written is index_2.html or a <base>_2.html and
\* is none of the collected files
C2_OriginalsKept ==
    /\ \A p \in Collected : p \in DOMAIN files /\ files[p] = Files0[p]
    /\ \A p \in DOMAIN Files0 :
           ~DerivedName(p) => p \in DOMAIN files /\ files[p] = Files0[p]
    /\ \A p \in DOMAIN files :
           (p \notin DOMAIN Files0 \/ files[p] # Files0[p])
               => DerivedName(p) /\ p \notin Collected

\* C2 witness: a call has written its output in full and a later call has
\* failed in the middle of writing its own
C2_Witness ==
    /\ Called /\ last.calls >= 2 /\ ~last.ret /\ last.fail \in {"truncate", "partial"}
    /\ \E p \in DOMAIN files :
           p \notin DOMAIN Files0 /\ p # abspath(last.out) /\ files[p] # <<>>

\* the folder of the i-th collected file
FolderAt(i) == dirname(abspath(file_names[i]))

Reported == last.op = "report"

\* C11: when the batch driver finishes it has tried every collected file
\* exactly once in collection order, and the number it reports as processed
\* successfully is the number of files whose transform returned true
C11_ReportsSuccesses ==
    Reported =>
        /\ last.attempted = file_names
        /\ last.reported = last.succeeded

(***************************************************************************)
(* The file collection on its own: paths in several spellings              *)
(***************************************************************************)

\* files and folders as a user can name them: relative, with a '.' segment,
\* absolute, a derived output, a file that is no HTML file, a missing path
ListPaths ==
    {
     <<"a","/","c",".","h","t","m","l">>,
     <<"a","/",".","/","c",".","h","t","m","l">>,
     <<"/","w","/","a","/","c",".","h","t","m","l">>,
     <<"a","/","i","n","d","e","x",".","h","t","m","l">>,
     <<"a">>,
     <<"a","/",".">>,
     <<"a","/","c","_","2",".","h","t","m","l">>,
     <<"a","/","c",".","t","x","t">>,
     <<"z","z">>
    }

CollectAny == \E path \in ListPaths : AppendPath(path)

SpecList == Init /\ [][CollectAny]_vars

\* C10: the list holds no two entries that denote the same file after path
\* normalization, and no entry has the derived-output marker in its name
C10_Deduplicated ==
    /\ \A i, j \in 1..Len(file_names) :
           i # j => abspath(file_names[i]) # abspath(file_names[j])
    /\ \A i \in 1..Len(file_names) : ~Contains(basename(file_names[i]), Marker2)

(***************************************************************************)
(* The substitution table: dictionary.csv of folder a drawn from a set     *)
(***************************************************************************)

\* lines of a dictionary.csv: rules whose keys overlap, a rule whose value is
\* a key of another, lines that start with a comma or hold only blanks before
\* it, a line without a comma
CsvLineSet ==
    {
     <<"A",",","2","\n">>,
     <<"A","B",",","1","\n">>,
     <<"A","B",",","A","\n">>,
     <<",","x","\n">>,
     <<" ",","," ","y","\n">>,
     <<"B","\n">>
    }

CsvContents ==
    {Join(ls) : ls \in UNION {[1..n -> CsvLineSet] : n \in 0..MaxCsvLines}}

\* the index page of folder b, then the index page of folder a
LoadNames ==
    <<<<"b","/","i","n","d","e","x",".","h","t","m","l">>,
      <<"a","/","i","n","d","e","x",".","h","t","m","l">>>>

InitLoad ==
    /\ \E csv \in CsvContents :
           files = (<<"/","w","/","a","/","d","i","c","t","i","o","n","a","r","y",".","c","s","v">> :> csv) @@ Files0
    /\ dictionary = <<>>
    /\ folder_path = NoFolder
    /\ file_names = LoadNames
    /\ last = NoCall

SpecLoad == InitLoad /\ [][Transform]_vars

\* the folder's dictionary.csv as the last load found it
LoadedCsv == join(folder_path, DictionaryCsv)

\* C4: a load whose read fails at any point, or that finds no dictionary.csv,
\* leaves the table empty
C4_LoadDegradesToEmpty ==
    (Called /\ last.loaded /\ (last.loadFail # NoFail \/ ~isfile(files, LoadedCsv)))
        => dictionary = <<>>

\* the keys of dictionary.csv in the order of their first appearance
KeysInFileOrder ==
    LET d == ParseLines(<<>>, ReadLines(ReadFile(files, LoadedCsv)))
    IN  [i \in 1..Len(d) |-> d[i][1]]

\* the place of key in a list of keys
PlaceOf(keys, key) == CHOOSE i \in 1..Len(keys) : keys[i] = key

\* C5: whenever apply can run, the entries are in non-increasing key-length
\* order and entries of equal key length keep the order in which their keys
\* first appear in dictionary.csv
C5_TableOrdered ==
    Called =>
        \A i, j \in 1..Len(dictionary) :
            i < j =>
                /\ Len(dictionary[i][1]) >= Len(dictionary[j][1])
                /\ Len(dictionary[i][1]) = Len(dictionary[j][1])
                       => PlaceOf(KeysInFileOrder, dictionary[i][1])
                              < PlaceOf(KeysInFileOrder, dictionary[j][1])

\* text whose characters are marked: TRUE for a character of the input,
\* FALSE for one that a replacement produced
Mark(s, original) == [i \in 1..Len(s) |-> <<s[i], original>>]

Unmark(m) == [i \in 1..Len(m) |-> m[i][1]]

\* old occurs in m at position i, on characters of the input only
OccursOnInput(m, old, i) ==
    /\ i + Len(old) - 1 <= Len(m)
    /\ \A k \in 1..Len(old) : m[i + k - 1] = <<old[k], TRUE>>

\* one entry replaced where its key lies on characters of the input
RECURSIVE ReplaceOnInput(_, _, _)
ReplaceOnInput(m, old, new) ==
    IF old = <<>> THEN Mark(Replace(Unmark(m), old, new), FALSE)
    ELSE LET hits == {i \in 1..Len(m) : OccursOnInput(m, old, i)}
             i    == CHOOSE h \in hits : \A g \in hits : h <= g
         IN  IF hits = {} THEN m
             ELSE SubSeq(m, 1, i - 1) \o Mark(new, FALSE)
                  \o ReplaceOnInput(From(m, i + Len(old)), old, new)

\* the entries applied in table order, none to text an earlier one produced
RECURSIVE ApplyOnInput(_, _)
ApplyOnInput(d, m) ==
    IF d = <<>> THEN m
    ELSE ApplyOnInput(Tail(d), ReplaceOnInput(m, d[1][1], d[1][2]))

\* the table has no empty key
NoEmptyKey(d) == \A i \in 1..Len(d) : d[i][1] # <<>>

\* C6: no entry matches text that the replacement value of an earlier entry
\* produced; what the root strategy wrote is each line of the input with every
\* key matched against the characters of that line only
C6_NoRetriggering ==
    (RootCall /\ last.ret /\ NoEmptyKey(dictionary)) =>
        LET lines == ReadLines(ReadFile(files, last.path))
        IN  last.content =
                Join([i \in 1..Len(lines) |->
                         Unmark(ApplyOnInput(dictionary, Mark(lines[i], TRUE)))])

\* C8: after any load the table has no entry whose key is the empty string
C8_NoEmptyKey == NoEmptyKey(dictionary)

(***************************************************************************)
(* The content-merge strategy: a chapter page and its companion text in a  *)
(* folder m that has no dictionary.csv                                     *)
(***************************************************************************)

MergePage == <<"/","w","/","m","/","c",".","h","t","m","l">>

MergeText == <<"/","w","/","m","/","c",".","t","x","t">>

MergeNames == <<<<"m","/","c",".","h","t","m","l">>>>

\* the most pieces a drawn HTML document is made of
MaxPieces == 3

\* pieces of an HTML document: plain text, a region, a region in capitals
\* whose tag has an attribute, an opening tag that is never closed
HtmlPieces ==
    {
     <<"p">>,
     <<"<","m","a","i","n",">","x","<","/","m","a","i","n",">">>,
     <<"<","M","A","I","N"," ","a",">","y","<","/","M","a","i","n",">">>,
     <<"<","m","a","i","n",">">>
    }

HtmlContents ==
    {Join(ps) : ps \in UNION {[1..n -> HtmlPieces] : n \in 0..MaxPieces}}

\* a companion text of 8 plain lines, and one whose heading holds a backslash
\* before a letter
MergeTexts ==
    {<<"a","\n","b","\n","c","\n","d","\n","e","\n","f","\n","T","\n","P","\n">>,
     <<"a","\n","b","\n","c","\n","d","\n","e","\n","f","\n","T","\\","q","\n","P","\n">>}

InitMerge ==
    /\ \E html \in HtmlContents, txt \in MergeTexts :
           files = (MergePage :> html) @@ (MergeText :> txt)
    /\ dictionary = <<>>
    /\ folder_path = NoFolder
    /\ file_names = MergeNames
    /\ last = NoCall

SpecMerge == InitMerge /\ [][Transform]_vars

\* html with its first region alone replaced by repl
FirstRegionReplaced(html, repl) ==
    LET m == MainMatch(html, 1)
    IN  SubSeq(html, 1, m[1] - 1) \o repl \o From(html, m[2] + 1)

\* C7: with n >= 1 regions '<main ...>' to the next '</main>' exactly the
\* first is replaced by the article wrapper and the others are kept; with none
\* the document is kept and the fragment in a bare <main> is appended
C7_FirstMatchOnly ==
    (MergeCall /\ last.ret) =>
        LET html == ReadFile(files, last.path)
        IN  last.content =
                IF MainSearch(html)
                THEN FirstRegionReplaced(html,
                         ArticleOpen \o last.wrapped_content \o ArticleClose)
                ELSE html \o AppendOpen \o last.wrapped_content \o AppendClose

(***************************************************************************)
(* The fragment: companion texts with a chapter line and a header line at  *)
(* drawn places                                                            *)
(***************************************************************************)

\* the most lines of a drawn companion text
MaxTxtLines == 9

\* the plain lines by index: the first is the header text followed by another
\* character, some are blank, some carry blanks around their text
PlainLines ==
    <<
      <<"U+624B","U+6A5F","U+6383","U+78BC","U+95B1","U+8B80","x">>,
      <<"b">>,
      <<" ","c">>,
      <<" "," ">>,
      <<"e"," ">>,
      <<"f">>,
      <<>>,
      <<"h">>,
      <<"i">>,
      <<"j">>
    >>

PlainLineAt(i) == IF i + 1 <= Len(PlainLines) THEN PlainLines[i + 1] ELSE <<"z">>

\* a line that holds the chapter character among others
ChapterLine == <<" ">> \o ChapterMarker \o <<"1">>

\* the header line with blanks around it
HeaderLine == <<" ">> \o Sentinel \o <<" ">>

\* the text of n lines with the chapter line at index km and the header line
\* at index ks (0-based; an index the text does not have places none)
DrawnText(n, km, ks) ==
    Join([i \in 1..n |->
             (IF i - 1 = km THEN ChapterLine
              ELSE IF i - 1 = ks THEN HeaderLine
              ELSE PlainLineAt(i - 1)) \o <<"\n">>])

InitFragment ==
    /\ \E n \in (HeaderLines - 1)..MaxTxtLines, km \in -1..(MaxTxtLines - 1),
          ks \in -1..(HeaderLines - 1) :
           files = (MergePage :> <<"<","m","a","i","n",">","x","<","/","m","a","i","n",">">>)
                   @@ (MergeText :> DrawnText(n, km, ks))
    /\ dictionary = <<>>
    /\ folder_path = NoFolder
    /\ file_names = MergeNames
    /\ last = NoCall

SpecFragment == InitFragment /\ [][Transform]_vars

\* the lines of the companion text of the last call
CompanionLines == ReadLines(ReadFile(files, splitext0(last.path) \o DotTxt))

\* the last call read a companion text of at least 8 lines and built a fragment
FragmentBuilt ==
    /\ MergeCall /\ last.fail # "read_txt"
    /\ Len(CompanionLines) >= HeaderLines

\* line k (0-based) is the header line or holds the chapter character
Matches(lines, k) ==
    Strip(lines[k + 1]) = Sentinel \/ Contains(lines[k + 1], ChapterMarker)

\* the fragment when lines 0..k are excluded: the first non-blank line after
\* them as the heading, every later non-blank line as a block
FragmentAfter(lines, k) ==
    LET kept == SelectSeq([i \in 1..Len(lines) |-> <<i - 1, Strip(lines[i])>>],
                          LAMBDA x : x[1] > k /\ x[2] # <<>>)
    IN  Join([j \in 1..Len(kept) |->
                 IF j = 1 THEN H2Open \o kept[j][2] \o H2Close
                 ELSE DivOpen \o kept[j][2] \o DivClose])

\* C9 as stated: for every k in 0..7 whose line holds the chapter character,
\* lines 0..k are excluded and the first non-blank line after line k is the
\* heading; with no matching line among the first 8 only line 0 is excluded
C9_SkipBoundaryAnyMarker ==
    FragmentBuilt =>
        /\ \A k \in 0..(HeaderLines - 1) :
               Contains(CompanionLines[k + 1], ChapterMarker)
                   => last.wrapped_content = FragmentAfter(CompanionLines, k)
        /\ (\A k \in 0..(HeaderLines - 1) : ~Matches(CompanionLines, k))
               => last.wrapped_content = FragmentAfter(CompanionLines, 0)

\* C9 amended: if line k is the last of the first 8 lines that is the header
\* line or holds the chapter character, lines 0..k are excluded and the first
\* non-blank line after line k is the heading, every later non-blank line a
\* block; with no such line among the first 8 only line 0 is excluded
C9_SkipBoundaryLastMatch ==
    FragmentBuilt =>
        /\ \A k \in 0..(HeaderLines - 1) :
               (/\ Matches(CompanionLines, k)
                /\ \A j \in (k + 1)..(HeaderLines - 1) : ~Matches(CompanionLines, j))
                   => /\ last.skip_line_index = k
                      /\ last.wrapped_content = FragmentAfter(CompanionLines, k)
        /\ (\A k \in 0..(HeaderLines - 1) : ~Matches(CompanionLines, k))
               => /\ last.skip_line_index = 0
                  /\ last.wrapped_content = FragmentAfter(CompanionLines, 0)

\* C9 witness: the chapter line is line 3, a header line follows it among the
\* first 8 lines, and the merge wrote a heading taken from after that line
C9_Witness ==
    /\ FragmentBuilt /\ last.ret
    /\ Contains(CompanionLines[4], ChapterMarker)
    /\ last.skip_line_index > 3
    /\ last.wrapped_content # <<>>

(***************************************************************************)
(* The content merge on a companion text of any length                     *)
(***************************************************************************)

MergeOutput == <<"/","w","/","m","/","c","_","2",".","h","t","m","l">>

MergeCsv == <<"/","w","/","m","/","d","i","c","t","i","o","n","a","r","y",".","c","s","v">>

\* a page with a region, a page without one, an empty page
ShortPages ==
    {<<"p","<","m","a","i","n",">","x","<","/","m","a","i","n",">">>, <<"b">>, <<>>}

\* the folder's other files: none, a table, an output of an earlier run
ShortFolders ==
    {<<>> :> <<>>,
     MergeCsv :> <<"b",",","c","\n">>,
     MergeOutput :> <<"o","l","d">>}

\* the drawn text, and the same text whose last line has no line end
Unended(text) == IF text = <<>> THEN text ELSE SubSeq(text, 1, Len(text) - 1)

\* a companion text of 0..MaxTxtLines lines, its last line ended or not,
\* with the chapter line somewhere or nowhere
InitShort ==
    /\ \E n \in 0..MaxTxtLines, km \in {-1, 2}, ended \in BOOLEAN,
          html \in ShortPages, others \in ShortFolders :
           LET text == DrawnText(n, km, -1)
               here == (MergePage :> html)
                       @@ (MergeText :> (IF ended THEN text ELSE Unended(text)))
           IN  files = IF <<>> \in DOMAIN others THEN here ELSE here @@ others
    /\ dictionary = <<>>
    /\ folder_path = NoFolder
    /\ file_names = MergeNames
    /\ last = NoCall

SpecShort == InitShort /\ [][Transform]_vars

\* the lines of the companion text of the file a step calls the handler on
CompanionOf(call) == ReadLines(ReadFile(files, splitext0(call.path) \o DotTxt))

\* C12: when the companion text exists and has fewer than 8 lines the content
\* merge returns false and writes nothing, whatever the page and the table
\* hold; a merge that returns true had a companion text of at least 8 lines
C12_ShortCompanionFails ==
    [][(last'.op = "call" /\ Lower(basename(last'.path)) # IndexHtml) =>
          /\ (/\ isfile(files, splitext0(last'.path) \o DotTxt)
              /\ Len(CompanionOf(last')) < 8)
                 => ~last'.ret /\ files' = files
          /\ last'.ret => /\ isfile(files, splitext0(last'.path) \o DotTxt)
                          /\ Len(CompanionOf(last')) >= 8]_vars

\* C12 witness: with no failure of the file system, a call on a page with a
\* region and a companion text of seven lines has returned false, and the
\* output of an earlier run is as it was
C12_Witness ==
    /\ MergeCall /\ ~last.ret /\ last.fail = "none" /\ last.loadFail = NoFail
    /\ Len(CompanionLines) = 7
    /\ MainSearch(ReadFile(files, last.path))
    /\ isfile(files, MergeOutput) /\ ReadFile(files, MergeOutput) = <<"o","l","d">>

====
